---------------------------- MODULE Spec2Model ----------------------------
(***************************************************************************)
(* EMCViewer: the prefetch cache FileCaching (src/emcviewer/file_handler.py)*)
(* and the viewer handlers of MainWindow (src/emcviewer/runner.py) that     *)
(* drive it.                                                                *)
(*                                                                          *)
(* Two threads share one FileCaching object without any lock: the viewer   *)
(* (Qt main thread: get_data, the timer's update_file_list, the open-       *)
(* directory handler, quit) and the QThread running FileCaching.run.        *)
(* A thread's step is the code between two blocking calls (os.listdir,      *)
(* stat, the decoder, time.sleep), plus one step per iteration of the       *)
(* candidate search loop; the other thread and the directory may act        *)
(* between two steps.  Every interleaving of the model is one the           *)
(* interpreter can produce; the interpreter can also switch threads inside  *)
(* a step, which the model does not explore.                                *)
(*                                                                          *)
(* Files are numbered 1..MaxFiles (their lexicographic order) in each of    *)
(* the directories 1..NumDirs; disk[d][n] is the modification time of file  *)
(* n of directory d, 0 when the file does not exist.  A file's content      *)
(* changes exactly when its modification time does, so the decoder's        *)
(* payload is <<directory, file, modification time>>.                       *)
(***************************************************************************)
EXTENDS Integers, Sequences, FiniteSets

VARIABLES
    fc,      \* the FileCaching object: its fields
    bg,      \* the thread in FileCaching.run: position and locals
    fg,      \* the viewer thread: position and locals of the running handler
    disk,    \* the directories: disk[d][n] = mtime of file n in d, 0 = absent
    budget,  \* what the environment may still do: viewer calls, disk changes
    prev     \* the object as it was when the viewer's last handler began,
             \* recorded where a specification starts it as an object

vars == <<fc, bg, fg, disk, budget, prev>>

(***************************************************************************)
(* Bounds of the model.                                                     *)
(***************************************************************************)
MaxFiles == 3
NumDirs == 2
MaxMtime == 2
MaxLimit == 2
MaxOps == 2
MaxEnv == 1

Names == 1..MaxFiles
Dirs == 1..NumDirs

\* file_list = None before the first update_file_list (file_handler.py:24)
None == <<0>>

(***************************************************************************)
(* Python lists as sequences; Python positions are 0-based.                 *)
(***************************************************************************)
Abs(x) == IF x < 0 THEN -x ELSE x

\* x in s
Contains(s, x) == \E i \in 1..Len(s) : s[i] = x

\* s.index(x): the 0-based position of the first x
ListIndex(s, x) == (CHOOSE i \in 1..Len(s) : s[i] = x /\ \A j \in 1..(i-1) : s[j] # x) - 1

\* s[i] raises IndexError unless -len(s) <= i < len(s); a negative i counts
\* from the end
PyValid(s, i) == i >= -Len(s) /\ i < Len(s)
PyGet(s, i) == IF i < 0 THEN s[Len(s) + i + 1] ELSE s[i + 1]

\* del s[k] for the 1-based k
DelAt(s, k) == SubSeq(s, 1, k - 1) \o SubSeq(s, k + 1, Len(s))

\* del self.index[k]; del self.data[k]; del self.mtime[k]
DelEntry(o, k) ==
    [o EXCEPT !.index = DelAt(o.index, k),
              !.data = DelAt(o.data, k),
              !.mtime = DelAt(o.mtime, k)]

\* self.index.append(p); self.data.append(d); self.mtime.append(m)
AppendEntry(o, p, d, m) ==
    [o EXCEPT !.index = Append(o.index, p),
              !.data = Append(o.data, d),
              !.mtime = Append(o.mtime, m)]

RECURSIVE SortedList(_)
SortedList(S) ==
    IF S = {} THEN <<>>
    ELSE LET m == CHOOSE x \in S : \A y \in S : x <= y
         IN <<m>> \o SortedList(S \ {m})

\* the sorted names of directory d that match the filter
\* (every file of the model matches)
ListDir(dk, d) == SortedList({n \in Names : dk[d][n] > 0})

\* mtime(filename) and the decoder on filename = <<d, n>>; both fail when
\* the file does not exist
FileExists(dk, filename) == dk[filename[1]][filename[2]] > 0
Stat(dk, filename) == dk[filename[1]][filename[2]]
Decode(dk, filename) == <<filename[1], filename[2], dk[filename[1]][filename[2]]>>

(***************************************************************************)
(* update_file_list.  The result is the object as the call leaves it and    *)
(* the exception it raised, "ok" when it returned.                          *)
(***************************************************************************)
\* The remapped position of an entry whose file is still listed.
RemapMutNoRewrite(new, fname, pos) == pos
Remap(new, fname, pos) == ListIndex(new, fname)

\* The loop over the entries, last to first; k is the 1-based place of the
\* entry to treat (inv_i + 1).
RECURSIVE Reconcile(_, _, _)
Reconcile(o, new, k) ==
    IF k = 0 THEN [o |-> o, err |-> "ok"]
    ELSE IF ~PyValid(o.file_list, o.index[k]) THEN [o |-> o, err |-> "IndexError"]
    ELSE LET fname == PyGet(o.file_list, o.index[k])
         IN IF ~Contains(new, fname)
            THEN Reconcile(DelEntry(o, k), new, k - 1)
            ELSE Reconcile([o EXCEPT !.index[k] = Remap(new, fname, o.index[k])],
                           new, k - 1)

\* The anchor's new position: its index when still listed, else the last.
AnchorMutFirst(new, name) == IF Contains(new, name) THEN ListIndex(new, name) ELSE 0
Anchor(new, name) ==
    IF Contains(new, name) THEN ListIndex(new, name) ELSE Len(new) - 1

UpdateFileListMutNoEarlyReturn(o, new) ==
    IF Len(new) = 0 THEN [o |-> o, err |-> "ValueError"]
    ELSE [o |-> [o EXCEPT !.file_list = new, !.current_index = Len(new) - 1,
                          !.index = <<>>, !.data = <<>>, !.mtime = <<>>],
          err |-> "ok"]
UpdateFileListMutClearsFirst(o, new) ==
    IF Len(new) = 0
    THEN [o |-> [o EXCEPT !.index = <<>>, !.data = <<>>, !.mtime = <<>>],
          err |-> "ValueError"]
    ELSE IF o.file_list # None /\ o.file_list = new THEN [o |-> o, err |-> "ok"]
    ELSE [o |-> [o EXCEPT !.file_list = new, !.current_index = Len(new) - 1,
                          !.index = <<>>, !.data = <<>>, !.mtime = <<>>],
          err |-> "ok"]
UpdateFileListMutInstallsEmpty(o, new) ==
    IF o.file_list # None /\ o.file_list = new THEN [o |-> o, err |-> "ok"]
    ELSE [o |-> [o EXCEPT !.file_list = new, !.current_index = Len(new) - 1,
                          !.index = <<>>, !.data = <<>>, !.mtime = <<>>],
          err |-> "ok"]
UpdateFileList(o, new) ==
    IF Len(new) = 0 THEN [o |-> o, err |-> "ValueError"]
    ELSE IF o.file_list # None /\ o.file_list = new THEN [o |-> o, err |-> "ok"]
    ELSE IF o.file_list # None /\ ~PyValid(o.file_list, o.current_index)
         THEN [o |-> o, err |-> "IndexError"]
    ELSE LET current_file_name ==
                 IF o.file_list # None THEN PyGet(o.file_list, o.current_index)
                 ELSE new[Len(new)]
             r == Reconcile(o, new, Len(o.index))
         IN IF r.err # "ok" THEN r
            ELSE [o |-> [r.o EXCEPT !.file_list = new,
                                    !.current_index = Anchor(new, current_file_name)],
                  err |-> "ok"]

(***************************************************************************)
(* The eviction policy of run (lines 124-142).                              *)
(***************************************************************************)
\* distance = [abs(i - self.current_index) for i in self.index]
Distance(o) == [i \in 1..Len(o.index) |-> Abs(o.index[i] - o.current_index)]

\* max(distance), of a non-empty list
MaxDistanceMutMin(o) ==
    LET distance == Distance(o)
    IN CHOOSE m \in {distance[i] : i \in 1..Len(distance)} :
           \A i \in 1..Len(distance) : distance[i] >= m
MaxDistance(o) ==
    LET distance == Distance(o)
    IN CHOOSE m \in {distance[i] : i \in 1..Len(distance)} :
           \A i \in 1..Len(distance) : distance[i] <= m

\* distance.index(max_distance), as the 1-based place
IndexToDelMutLast(o) ==
    CHOOSE k \in 1..Len(o.index) :
        /\ Distance(o)[k] = MaxDistance(o)
        /\ \A j \in (k + 1)..Len(o.index) : Distance(o)[j] # MaxDistance(o)
IndexToDel(o) == ListIndex(Distance(o), MaxDistance(o)) + 1

\* while len(self.index) > self._cache_limit: delete a farthest entry
RECURSIVE EvictOverfull(_)
EvictOverfull(o) ==
    IF Len(o.index) > o.cache_limit
    THEN EvictOverfull(DelEntry(o, IndexToDel(o)))
    ELSE o

(***************************************************************************)
(* The threads.                                                             *)
(***************************************************************************)
NoFile == <<0, 0>>
NoData == <<0, 0, 0>>

\* locals of run, at the head of the loop
BgAt(pc, last) ==
    [pc |-> pc, original_length |-> 0, file_index |-> 0, load_index |-> 0,
     index_to_del |-> 0, filename |-> NoFile, last |-> last]

\* the viewer between two handlers; last and ret are what the last handler
\* did and returned
FgAt(pc, last, ret) ==
    [pc |-> pc, index |-> 0, filename |-> NoFile, last |-> last, ret |-> ret]

\* FileCaching.__init__: the fields, then update_file_list
Construct(dk, d, limit) ==
    UpdateFileList([index |-> <<>>, data |-> <<>>, mtime |-> <<>>,
                    cache_limit |-> limit, running |-> TRUE, paused |-> FALSE,
                    file_list |-> None, data_dir |-> d, current_index |-> 10],
                   ListDir(dk, d))

\* The directories at construction: directory 1, the one being opened, holds
\* any non-empty set of files, every other directory the files 1..k for some
\* k >= 0; every file has modification time 1.
InitialDisks ==
    {dk \in [Dirs -> [Names -> 0..1]] :
        /\ \E n \in Names : dk[1][n] > 0
        /\ \A d \in Dirs \ {1} : \A n \in Names :
               dk[d][n] > 0 => \A m \in 1..n : dk[d][m] > 0}

\* prev where no handler is recorded
NoPrev == [file_list |-> None]

Init ==
    /\ disk \in InitialDisks
    /\ \E limit \in 1..MaxLimit : fc = Construct(disk, 1, limit).o
    /\ bg = BgAt("head", "none")
    /\ fg = FgAt("idle", <<"none", "none">>, NoData)
    /\ budget = [ops |-> MaxOps, env |-> MaxEnv]
    /\ prev = NoPrev

(***************************************************************************)
(* The directories change under the program.                                *)
(***************************************************************************)
EnvAdd(d, n) ==
    /\ budget.env > 0
    /\ disk[d][n] = 0
    /\ \E m \in 1..MaxMtime : disk' = [disk EXCEPT ![d][n] = m]
    /\ budget' = [budget EXCEPT !.env = @ - 1]
    /\ UNCHANGED <<fc, bg, fg, prev>>

EnvRemove(d, n) ==
    /\ budget.env > 0
    /\ disk[d][n] > 0
    /\ disk' = [disk EXCEPT ![d][n] = 0]
    /\ budget' = [budget EXCEPT !.env = @ - 1]
    /\ UNCHANGED <<fc, bg, fg, prev>>

\* the file is rewritten: new content, new modification time
EnvTouch(d, n) ==
    /\ budget.env > 0
    /\ disk[d][n] > 0
    /\ \E m \in (1..MaxMtime) \ {disk[d][n]} : disk' = [disk EXCEPT ![d][n] = m]
    /\ budget' = [budget EXCEPT !.env = @ - 1]
    /\ UNCHANGED <<fc, bg, fg, prev>>

(***************************************************************************)
(* The viewer thread.  Each handler the viewer starts takes one unit of     *)
(* budget.ops.                                                              *)
(***************************************************************************)
Spend == budget' = [budget EXCEPT !.ops = @ - 1]

\* a handler begins
Remember == prev' = IF prev = NoPrev THEN NoPrev ELSE fc

\* get_data up to the decoder call (lines 152-159)
FgGetStartMutDecodesAgain(index) ==
    /\ fg.pc = "idle"
    /\ budget.ops > 0
    /\ Spend
    /\ Remember
    /\ fc' = [fc EXCEPT !.current_index = index]
    /\ fg' = IF ~PyValid(fc.file_list, index)
             THEN FgAt("idle", <<"get", "IndexError">>, NoData)
             ELSE IF Contains(fc.index, index)
             THEN FgAt("idle", <<"get", "hit">>,
                       Decode(disk, <<fc.data_dir, PyGet(fc.file_list, index)>>))
             ELSE [FgAt("get_decode", <<"get", "decoding">>, NoData) EXCEPT
                      !.index = index,
                      !.filename = <<fc.data_dir, PyGet(fc.file_list, index)>>]
    /\ UNCHANGED <<bg, disk>>
FgGetStart(index) ==
    /\ fg.pc = "idle"
    /\ budget.ops > 0
    /\ Spend
    /\ Remember
    /\ fc' = [fc EXCEPT !.current_index = index]
    /\ fg' = IF Contains(fc.index, index)
             THEN FgAt("idle", <<"get", "hit">>, fc.data[ListIndex(fc.index, index) + 1])
             ELSE IF ~PyValid(fc.file_list, index)
             THEN FgAt("idle", <<"get", "IndexError">>, NoData)
             ELSE [FgAt("get_decode", <<"get", "decoding">>, NoData) EXCEPT
                      !.index = index,
                      !.filename = <<fc.data_dir, PyGet(fc.file_list, index)>>]
    /\ UNCHANGED <<bg, disk>>

\* get_data from the decoder call on (lines 160-164)
FgGetFinishMutEvicts ==
    /\ fg.pc = "get_decode"
    /\ IF FileExists(disk, fg.filename)
       THEN /\ fc' = EvictOverfull(AppendEntry(fc, fg.index, Decode(disk, fg.filename),
                                               Stat(disk, fg.filename)))
            /\ fg' = FgAt("idle", <<"get", "miss">>, Decode(disk, fg.filename))
       ELSE /\ fc' = fc
            /\ fg' = FgAt("idle", <<"get", "DecodeError">>, NoData)
    /\ UNCHANGED <<bg, disk, budget, prev>>
FgGetFinish ==
    /\ fg.pc = "get_decode"
    /\ IF FileExists(disk, fg.filename)
       THEN /\ fc' = AppendEntry(fc, fg.index, Decode(disk, fg.filename),
                                 Stat(disk, fg.filename))
            /\ fg' = FgAt("idle", <<"get", "miss">>, Decode(disk, fg.filename))
       ELSE /\ fc' = fc
            /\ fg' = FgAt("idle", <<"get", "DecodeError">>, NoData)
    /\ UNCHANGED <<bg, disk, budget, prev>>

\* _on_timer: update_file_list; the timer also fires while the directory
\* dialog of _on_open_dir is open
FgRefresh ==
    /\ fg.pc \in {"idle", "dialog"}
    /\ budget.ops > 0
    /\ Spend
    /\ Remember
    /\ LET r == UpdateFileList(fc, ListDir(disk, fc.data_dir))
       IN /\ fc' = r.o
          /\ fg' = [fg EXCEPT !.last = IF r.err # "ok" THEN <<"refresh", r.err>>
                                       ELSE IF fc.file_list = r.o.file_list
                                       THEN <<"refresh", "same">>
                                       ELSE <<"refresh", "changed">>,
                              !.ret = NoData]
    /\ UNCHANGED <<bg, disk>>

\* _on_open_dir: pause(), then the dialog opens
FgOpenDir ==
    /\ fg.pc = "idle"
    /\ budget.ops > 0
    /\ Spend
    /\ Remember
    /\ fc' = [fc EXCEPT !.paused = TRUE]
    /\ fg' = FgAt("dialog", <<"open", "dialog">>, NoData)
    /\ UNCHANGED <<bg, disk>>

\* the dialog is cancelled: unpause()
FgDialogCancelMutSetsRunning ==
    /\ fg.pc = "dialog"
    /\ fc' = [fc EXCEPT !.running = TRUE]
    /\ fg' = FgAt("idle", <<"open", "cancelled">>, NoData)
    /\ UNCHANGED <<bg, disk, budget, prev>>
FgDialogCancel ==
    /\ fg.pc = "dialog"
    /\ fc' = [fc EXCEPT !.paused = FALSE]
    /\ fg' = FgAt("idle", <<"open", "cancelled">>, NoData)
    /\ UNCHANGED <<bg, disk, budget, prev>>

\* change_data_dir up to the decoder call (lines 33-42); an exception leaves
\* _on_open_dir before its unpause()
FgChangeDirStart(new_dir) ==
    /\ fg.pc = "dialog"
    /\ Remember
    /\ LET cleared == [fc EXCEPT !.data_dir = new_dir, !.index = <<>>,
                                 !.data = <<>>, !.mtime = <<>>]
           r == UpdateFileList(cleared, ListDir(disk, new_dir))
       IN /\ fc' = r.o
          /\ fg' = IF r.err # "ok" THEN FgAt("idle", <<"cd", r.err>>, NoData)
                   ELSE IF ~PyValid(r.o.file_list, r.o.current_index)
                   THEN FgAt("idle", <<"cd", "IndexError">>, NoData)
                   ELSE [FgAt("cd_decode", <<"cd", "decoding">>, NoData) EXCEPT
                            !.filename = <<new_dir, PyGet(r.o.file_list,
                                                          r.o.current_index)>>]
    /\ UNCHANGED <<bg, disk, budget>>

\* change_data_dir from the decoder call on (lines 43-46), then unpause()
FgChangeDirFinish ==
    /\ fg.pc = "cd_decode"
    /\ IF FileExists(disk, fg.filename)
       THEN /\ fc' = [AppendEntry(fc, fc.current_index, Decode(disk, fg.filename),
                                  Stat(disk, fg.filename))
                         EXCEPT !.paused = FALSE]
            /\ fg' = FgAt("idle", <<"cd", "ok">>, NoData)
       ELSE /\ fc' = fc
            /\ fg' = FgAt("idle", <<"cd", "DecodeError">>, NoData)
    /\ UNCHANGED <<bg, disk, budget, prev>>

\* _on_quit: exit()
FgExit ==
    /\ fg.pc = "idle"
    /\ budget.ops > 0
    /\ Spend
    /\ Remember
    /\ fc' = [fc EXCEPT !.running = FALSE]
    /\ fg' = FgAt("idle", <<"exit", "ok">>, NoData)
    /\ UNCHANGED <<bg, disk>>

(***************************************************************************)
(* The thread in run.  An exception no code catches ends the thread.        *)
(***************************************************************************)
Crash(err) == BgAt("crashed", err)

\* the positions of the current Listing
InRange(o, p) == 0 <= p /\ p < Len(o.file_list)

\* the positions a Listing can have
Positions == 0..(MaxFiles - 1)

\* lines 83-88 and 91: the loop's test, the paused check, the length the
\* invalidation loop runs over
BgHeadMutIgnoresPause ==
    /\ bg.pc = "head"
    /\ bg' = IF ~fc.running THEN BgAt("done", bg.last)
             ELSE IF Len(fc.index) = 0 THEN BgAt("refresh", "tick")
             ELSE [BgAt("inval", "tick") EXCEPT !.original_length = Len(fc.index)]
    /\ UNCHANGED <<fc, fg, disk, budget, prev>>
BgHead ==
    /\ bg.pc = "head"
    /\ bg' = IF ~fc.running THEN BgAt("done", bg.last)
             ELSE IF fc.paused THEN BgAt("sleep", "paused")
             ELSE IF Len(fc.index) = 0 THEN BgAt("refresh", "tick")
             ELSE [BgAt("inval", "tick") EXCEPT !.original_length = Len(fc.index)]
    /\ UNCHANGED <<fc, fg, disk, budget, prev>>

\* time.sleep(0.5); continue
BgSleep ==
    /\ bg.pc = "sleep"
    /\ bg' = BgAt("head", bg.last)
    /\ UNCHANGED <<fc, fg, disk, budget, prev>>

\* one iteration of the invalidation loop (lines 92-101)
BgInvalMutDropsFresh ==
    /\ bg.pc = "inval"
    /\ LET k == bg.original_length - bg.file_index
           next == IF bg.file_index + 1 = bg.original_length
                   THEN BgAt("refresh", "tick")
                   ELSE [bg EXCEPT !.file_index = @ + 1]
       IN IF k > Len(fc.index) \/ ~PyValid(fc.file_list, fc.index[k])
          THEN fc' = fc /\ bg' = Crash("IndexError")
          ELSE LET file_path == <<fc.data_dir, PyGet(fc.file_list, fc.index[k])>>
               IN IF ~FileExists(disk, file_path)
                  THEN fc' = fc /\ bg' = Crash("FileNotFoundError")
                  ELSE /\ fc' = IF fc.mtime[k] = Stat(disk, file_path)
                                THEN DelEntry(fc, k) ELSE fc
                       /\ bg' = next
    /\ UNCHANGED <<fg, disk, budget, prev>>
BgInval ==
    /\ bg.pc = "inval"
    /\ LET k == bg.original_length - bg.file_index
           next == IF bg.file_index + 1 = bg.original_length
                   THEN BgAt("refresh", "tick")
                   ELSE [bg EXCEPT !.file_index = @ + 1]
       IN IF k > Len(fc.index) \/ ~PyValid(fc.file_list, fc.index[k])
          THEN fc' = fc /\ bg' = Crash("IndexError")
          ELSE LET file_path == <<fc.data_dir, PyGet(fc.file_list, fc.index[k])>>
               IN IF ~FileExists(disk, file_path)
                  THEN fc' = fc /\ bg' = Crash("FileNotFoundError")
                  ELSE /\ fc' = IF fc.mtime[k] # Stat(disk, file_path)
                                THEN DelEntry(fc, k) ELSE fc
                       /\ bg' = next
    /\ UNCHANGED <<fg, disk, budget, prev>>

\* lines 103-110: the first candidate, the refresh, the everything-cached test
BgRefresh ==
    /\ bg.pc = "refresh"
    /\ LET load_index == fc.current_index + 1
           r == UpdateFileList(fc, ListDir(disk, fc.data_dir))
       IN /\ fc' = r.o
          /\ bg' = IF r.err # "ok" THEN Crash(r.err)
                   ELSE IF Len(r.o.index) >= Len(r.o.file_list)
                   THEN BgAt("sleep", "all_cached")
                   ELSE [BgAt("search", "tick") EXCEPT !.load_index = load_index]
    /\ UNCHANGED <<fg, disk, budget, prev>>

\* the test of the search loop (lines 112-114)
SearchCond(o, load_index) ==
    \/ Contains(o.index, load_index)
    \/ load_index < 0
    \/ load_index >= Len(o.file_list)

\* the mirrored candidate (lines 115-117)
ReflectMutNoStep(o, load_index) == 2 * o.current_index - load_index
Reflect(o, load_index) ==
    2 * o.current_index - load_index
        + (IF load_index < o.current_index THEN 1 ELSE 0)

\* one test of the search loop and, when it holds, one iteration
\* (lines 112-119)
BgSearch ==
    /\ bg.pc = "search"
    /\ bg' = IF ~SearchCond(fc, bg.load_index) THEN [bg EXCEPT !.pc = "evict"]
             ELSE LET load_index == Reflect(fc, bg.load_index)
                  IN [bg EXCEPT !.load_index = load_index,
                                !.pc = IF Abs(load_index - fc.current_index)
                                            > fc.cache_limit
                                       THEN "evict" ELSE "search"]
    /\ UNCHANGED <<fc, fg, disk, budget, prev>>

\* lines 121-122: the range test
BgEvict ==
    /\ bg.pc = "evict"
    /\ bg' = IF bg.load_index < 0 \/ bg.load_index >= Len(fc.file_list)
             THEN BgAt("head", "abandoned")
             ELSE [bg EXCEPT !.pc = "overfull"]
    /\ UNCHANGED <<fc, fg, disk, budget, prev>>

\* lines 124-127: the test of the loop and the place of a farthest entry
BgOverfull ==
    /\ bg.pc = "overfull"
    /\ bg' = IF Len(fc.index) > fc.cache_limit
             THEN [bg EXCEPT !.pc = "overfull_del", !.index_to_del = IndexToDel(fc)]
             ELSE [bg EXCEPT !.pc = "room"]
    /\ UNCHANGED <<fc, fg, disk, budget, prev>>

\* lines 128-130: the three deletions, back to the test of the loop
BgOverfullDel ==
    /\ bg.pc = "overfull_del"
    /\ IF bg.index_to_del > Len(fc.index)
       THEN fc' = fc /\ bg' = Crash("IndexError")
       ELSE /\ fc' = DelEntry(fc, bg.index_to_del)
            /\ bg' = [bg EXCEPT !.pc = "overfull"]
    /\ UNCHANGED <<fg, disk, budget, prev>>

\* lines 132-139: a cache at capacity makes room only for a nearer candidate
BgRoomMutStrict ==
    /\ bg.pc = "room"
    /\ bg' = IF Len(fc.index) = fc.cache_limit
             THEN IF Abs(bg.load_index - fc.current_index) > MaxDistance(fc)
                  THEN BgAt("sleep", "rejected")
                  ELSE [bg EXCEPT !.pc = "room_del", !.index_to_del = IndexToDel(fc)]
             ELSE [bg EXCEPT !.pc = "load"]
    /\ UNCHANGED <<fc, fg, disk, budget, prev>>
BgRoom ==
    /\ bg.pc = "room"
    /\ bg' = IF Len(fc.index) = fc.cache_limit
             THEN IF Abs(bg.load_index - fc.current_index) >= MaxDistance(fc)
                  THEN BgAt("sleep", "rejected")
                  ELSE [bg EXCEPT !.pc = "room_del", !.index_to_del = IndexToDel(fc)]
             ELSE [bg EXCEPT !.pc = "load"]
    /\ UNCHANGED <<fc, fg, disk, budget, prev>>

\* lines 140-142: the three deletions
BgRoomDel ==
    /\ bg.pc = "room_del"
    /\ IF bg.index_to_del > Len(fc.index)
       THEN fc' = fc /\ bg' = Crash("IndexError")
       ELSE /\ fc' = DelEntry(fc, bg.index_to_del)
            /\ bg' = [bg EXCEPT !.pc = "load"]
    /\ UNCHANGED <<fg, disk, budget, prev>>

\* line 145: the candidate's file name
BgLoad ==
    /\ bg.pc = "load"
    /\ bg' = IF ~PyValid(fc.file_list, bg.load_index) THEN Crash("IndexError")
             ELSE [bg EXCEPT !.pc = "decode",
                             !.filename = <<fc.data_dir,
                                            PyGet(fc.file_list, bg.load_index)>>]
    /\ UNCHANGED <<fc, fg, disk, budget, prev>>

\* lines 146-149: the decoder, the three appends
BgDecode ==
    /\ bg.pc = "decode"
    /\ IF FileExists(disk, bg.filename)
       THEN /\ fc' = AppendEntry(fc, bg.load_index, Decode(disk, bg.filename),
                                 Stat(disk, bg.filename))
            /\ bg' = BgAt("head", "loaded")
       ELSE fc' = fc /\ bg' = Crash("DecodeError")
    /\ UNCHANGED <<fg, disk, budget, prev>>

\* The viewer asks for a position of the Listing as it is at the call.
ViewerGet(index) == InRange(fc, index) /\ FgGetStart(index)

Viewer ==
    \/ \E index \in Positions : ViewerGet(index)
    \/ FgGetFinish
    \/ FgRefresh
    \/ FgOpenDir
    \/ FgDialogCancel
    \/ \E new_dir \in Dirs : FgChangeDirStart(new_dir)
    \/ FgChangeDirFinish
    \/ FgExit

Run ==
    \/ BgHead
    \/ BgSleep
    \/ BgInval
    \/ BgRefresh
    \/ BgSearch
    \/ BgEvict
    \/ BgOverfull
    \/ BgOverfullDel
    \/ BgRoom
    \/ BgRoomDel
    \/ BgLoad
    \/ BgDecode

\* files appear, disappear and are rewritten in the directory being viewed
Env ==
    \E n \in Names :
        EnvAdd(fc.data_dir, n) \/ EnvRemove(fc.data_dir, n) \/ EnvTouch(fc.data_dir, n)

\* The program: the viewer, the thread in run, the directory.
Next == Viewer \/ Run \/ Env

Spec == Init /\ [][Next]_vars

(***************************************************************************)
(* The operations of the viewer thread one at a time, from every object    *)
(* the cache can be between two of them: a Listing, entries at distinct     *)
(* positions of it holding the files the Listing names there, a current     *)
(* position.  prev records the object as it was when the operation began.   *)
(***************************************************************************)
Listings == {SortedList(S) : S \in (SUBSET Names) \ {{}}}

\* lists of distinct positions of a Listing of n files
IndexLists(n) ==
    {ix \in UNION {[1..k -> 0..(n - 1)] : k \in 0..n} :
        \A i, j \in 1..Len(ix) : ix[i] = ix[j] => i = j}

\* the object holding file_list fl, entries at the positions ix, loaded when
\* every file had modification time 1, and current position c
ObjectAt(fl, ix, c) ==
    [index |-> ix,
     data |-> [i \in 1..Len(ix) |-> <<1, fl[ix[i] + 1], 1>>],
     mtime |-> [i \in 1..Len(ix) |-> 1],
     cache_limit |-> MaxLimit, running |-> TRUE, paused |-> FALSE,
     file_list |-> fl, data_dir |-> 1, current_index |-> c]

Objects ==
    UNION {{ObjectAt(fl, ix, c) : ix \in IndexLists(Len(fl)), c \in 0..(Len(fl) - 1)} :
           fl \in Listings}

\* the object inside __init__, before its call of update_file_list
Unlisted ==
    [index |-> <<>>, data |-> <<>>, mtime |-> <<>>,
     cache_limit |-> MaxLimit, running |-> TRUE, paused |-> FALSE,
     file_list |-> None, data_dir |-> 1, current_index |-> 10]

\* update_file_list, twice, on any object and any directory content
RefreshOps == 2

RefreshInit ==
    /\ fc \in Objects \cup {Unlisted}
    /\ disk \in {dk \in [Dirs -> [Names -> 0..1]] :
                     \A d \in Dirs \ {1} : \A n \in Names : dk[d][n] = 0}
    /\ bg = BgAt("head", "none")
    /\ fg = FgAt("idle", <<"none", "none">>, NoData)
    /\ budget = [ops |-> RefreshOps, env |-> 0]
    /\ prev = fc

RefreshSpec == RefreshInit /\ [][FgRefresh]_vars

\* get_data with any position, one below and one above the range included,
\* on any object whose Listing is the directory's, while files are rewritten
\* or disappear
GetOps == 1
GetEnv == 1

AnyPosition == -1..MaxFiles

GetInit ==
    /\ fc \in Objects
    /\ disk = [d \in Dirs |-> [n \in Names |->
                 IF d = 1 /\ Contains(fc.file_list, n) THEN 1 ELSE 0]]
    /\ bg = BgAt("head", "none")
    /\ fg = FgAt("idle", <<"none", "none">>, NoData)
    /\ budget = [ops |-> GetOps, env |-> GetEnv]
    /\ prev = fc

GetNext ==
    \/ \E index \in AnyPosition : FgGetStart(index)
    \/ FgGetFinish
    \/ \E n \in Names : EnvRemove(1, n) \/ EnvTouch(1, n)

GetSpec == GetInit /\ [][GetNext]_vars

\* The thread in run alone, on a directory that does not change: the object
\* as __init__ leaves it, or as the viewer's first get_data of the current
\* position (MainWindow.__init__) leaves it after that; no viewer call later.
StableInit ==
    /\ disk \in {dk \in InitialDisks : \A d \in Dirs \ {1} : \A n \in Names : dk[d][n] = 0}
    /\ \E limit \in 1..MaxLimit :
          LET o == Construct(disk, 1, limit).o
              filename == <<1, o.file_list[o.current_index + 1]>>
          IN \/ /\ fc = o
                /\ fg = FgAt("idle", <<"none", "none">>, NoData)
             \/ /\ fc = AppendEntry(o, o.current_index, Decode(disk, filename),
                                    Stat(disk, filename))
                /\ fg = FgAt("idle", <<"get", "miss">>, Decode(disk, filename))
    /\ bg = BgAt("head", "none")
    /\ budget = [ops |-> 0, env |-> 0]
    /\ prev = NoPrev

\* The thread in run alone, scheduled again and again, after a get_data(p)
\* that returned: any object whose current position is cached, the directory as
\* the Listing names it, nothing else changing.
SettleInit ==
    /\ \E o \in Objects, limit \in 1..MaxLimit :
          fc = [o EXCEPT !.cache_limit = limit]
    /\ Contains(fc.index, fc.current_index)
    /\ disk = [d \in Dirs |-> [n \in Names |->
                 IF d = 1 /\ Contains(fc.file_list, n) THEN 1 ELSE 0]]
    /\ bg = BgAt("head", "none")
    /\ fg = FgAt("idle", <<"get", "hit">>,
                 fc.data[ListIndex(fc.index, fc.current_index) + 1])
    /\ budget = [ops |-> 0, env |-> 0]
    /\ prev = fc

SettleSpec == SettleInit /\ [][Run]_vars /\ WF_vars(Run)

\* the thread in run is scheduled again and again, from a new object or after
\* a get_data
AloneInit == StableInit \/ SettleInit

StableSpec == AloneInit /\ [][Run]_vars /\ WF_vars(Run)

\* The thread in run from any object, its Listing the directory's, any
\* cache_limit, while the directory changes under it.
TickEnv == 1

TickInit ==
    /\ \E o \in Objects, limit \in 1..MaxLimit : fc = [o EXCEPT !.cache_limit = limit]
    /\ disk = [d \in Dirs |-> [n \in Names |->
                 IF d = 1 /\ Contains(fc.file_list, n) THEN 1 ELSE 0]]
    /\ bg = BgAt("head", "none")
    /\ fg = FgAt("idle", <<"none", "none">>, NoData)
    /\ budget = [ops |-> 0, env |-> TickEnv]
    /\ prev = NoPrev

TickSpec == TickInit /\ [][Run \/ Env]_vars

\* The viewer's handlers alone, from any object; the directory viewed holds
\* any set of files (it may have changed since the Listing was read, and may
\* be empty), every other directory holds no file or every file.
ViewerOps == 1

ViewerInit ==
    /\ fc \in Objects
    /\ disk \in {dk \in [Dirs -> [Names -> 0..1]] :
                     \A d \in Dirs \ {1} : \A n, m \in Names : dk[d][n] = dk[d][m]}
    /\ bg = BgAt("head", "none")
    /\ fg = FgAt("idle", <<"none", "none">>, NoData)
    /\ budget = [ops |-> ViewerOps, env |-> 0]
    /\ prev = fc

ViewerSpec == ViewerInit /\ [][Viewer]_vars

\* Lines 121-149 alone: the range test, the two evictions and the load, from
\* any object that holds fewer entries than its Listing has files (line 108),
\* any candidate and the directory as the Listing names it.
EvictInit ==
    /\ \E o \in Objects, limit \in 1..MaxLimit :
          fc = [o EXCEPT !.cache_limit = limit]
    /\ Len(fc.index) < Len(fc.file_list)
    /\ \E p \in AnyPosition :
          bg = [BgAt("evict", "tick") EXCEPT !.load_index = p,
                                             !.original_length = Len(fc.index)]
    /\ disk = [d \in Dirs |-> [n \in Names |->
                 IF d = 1 /\ Contains(fc.file_list, n) THEN 1 ELSE 0]]
    /\ fg = FgAt("idle", <<"none", "none">>, NoData)
    /\ budget = [ops |-> 0, env |-> 0]
    /\ prev = fc

EvictNext ==
    \/ BgEvict
    \/ BgOverfull
    \/ BgOverfullDel
    \/ BgRoom
    \/ BgRoomDel
    \/ BgLoad
    \/ BgDecode

EvictSpec == EvictInit /\ [][EvictNext]_vars

\* Lines 90-101 alone: the invalidation loop, from any object; each file of
\* the Listing is gone, as it was when the entries were loaded, or rewritten.
InvalInit ==
    /\ fc \in Objects
    /\ \E m \in [Names -> 0..MaxMtime] :
          /\ \A n \in Names : m[n] # 0 => Contains(fc.file_list, n)
          /\ disk = [d \in Dirs |-> [n \in Names |-> IF d = 1 THEN m[n] ELSE 0]]
    /\ bg = BgAt("head", "none")
    /\ fg = FgAt("idle", <<"none", "none">>, NoData)
    /\ budget = [ops |-> 0, env |-> 0]
    /\ prev = fc

InvalNext ==
    \/ BgHead
    \/ BgInval

InvalSpec == InvalInit /\ [][InvalNext]_vars

\* The two threads from a new object on a directory that does not change:
\* directory 1, the one opened, holds every file, every other directory the
\* file 1.
FlagOps == 2

FlagInit ==
    /\ disk = [d \in Dirs |-> [n \in Names |-> IF d = 1 \/ n = 1 THEN 1 ELSE 0]]
    /\ \E limit \in 1..MaxLimit : fc = Construct(disk, 1, limit).o
    /\ bg = BgAt("head", "none")
    /\ fg = FgAt("idle", <<"none", "none">>, NoData)
    /\ budget = [ops |-> FlagOps, env |-> 0]
    /\ prev = NoPrev

FlagSpec == FlagInit /\ [][Viewer \/ Run]_vars

(***************************************************************************)
(* The claims.                                                              *)
(***************************************************************************)
\* a step of run that ends an iteration the paused check did not skip
TickCompletes ==
    /\ bg.pc \in {"refresh", "search", "evict", "overfull", "overfull_del",
                 "room", "room_del", "load", "decode"}
    /\ bg'.pc \in {"head", "sleep"}

\* C1: whenever a full tick of run completes, the cache holds at most
\* cache_limit entries.
C1_TickKeepsLimit ==
    [][TickCompletes => Len(fc'.index) <= fc'.cache_limit]_vars

\* C2: in every reachable state every position stored in the cache is a
\* position of the current Listing.
C2_PositionsInRange ==
    \A i \in 1..Len(fc.index) : InRange(fc, fc.index[i])

\* C3: in every reachable state no two cache entries have the same position.
C3_PositionsUnique ==
    \A i, j \in 1..Len(fc.index) : fc.index[i] = fc.index[j] => i = j

\* C4: the candidate search terminates: it is never in a state where its
\* test holds, its body leaves the candidate where it is and the distance
\* test does not break, which is a state the loop never leaves.
C4_SearchTerminates ==
    bg.pc = "search" /\ SearchCond(fc, bg.load_index)
        => \/ Reflect(fc, bg.load_index) # bg.load_index
           \/ Abs(Reflect(fc, bg.load_index) - fc.current_index) > fc.cache_limit

\* The entries of the cache: position, payload, modification time.
Entries(o) == {<<o.index[i], o.data[i], o.mtime[i]>> : i \in 1..Len(o.index)}

\* the three lists have one length
Lockstep(o) == Len(o.data) = Len(o.index) /\ Len(o.mtime) = Len(o.index)

\* the file name an entry of the object stands for: file_list[index[i]]
NameOfEntry(o, i) == PyGet(o.file_list, o.index[i])

\* the update_file_list that just returned installed another Listing
RefreshChanged == fg.last[1] = "refresh" /\ fc.file_list # prev.file_list

\* the places of the object's entries whose file the Listing new still names
KeptPlaces(o, new) == {i \in 1..Len(o.index) : Contains(new, NameOfEntry(o, i))}

\* C5: a refresh that installs another Listing keeps exactly the entries
\* whose file name (old Listing at the old position) the new Listing names,
\* each with its position rewritten to the name's index in the new Listing and
\* its payload and modification time as they were.
C5_ReconciledByName ==
    RefreshChanged =>
        /\ Lockstep(fc)
        /\ Len(fc.index) = Cardinality(KeptPlaces(prev, fc.file_list))
        /\ Entries(fc) =
              {<<ListIndex(fc.file_list, NameOfEntry(prev, i)),
                 prev.data[i], prev.mtime[i]>> : i \in KeptPlaces(prev, fc.file_list)}

\* a refresh dropped one entry and moved another
C5_Witness ==
    /\ RefreshChanged
    /\ \E i \in 1..Len(prev.index) : i \notin KeptPlaces(prev, fc.file_list)
    /\ \E i \in KeptPlaces(prev, fc.file_list) :
          ListIndex(fc.file_list, NameOfEntry(prev, i)) # prev.index[i]

\* C6: a refresh that installs another Listing moves CurrentPosition to the
\* new index of the file name it stood at, to the last index when that name
\* is gone or when there was no Listing before.
C6_CurrentFollowsName ==
    RefreshChanged =>
        fc.current_index =
            IF prev.file_list = None THEN Len(fc.file_list) - 1
            ELSE IF \E k \in 1..Len(fc.file_list) :
                        fc.file_list[k] = PyGet(prev.file_list, prev.current_index)
            THEN (CHOOSE k \in 1..Len(fc.file_list) :
                        fc.file_list[k] = PyGet(prev.file_list, prev.current_index)) - 1
            ELSE Len(fc.file_list) - 1

\* a refresh moved CurrentPosition with its file, to an index that is not
\* the last
C6_Witness ==
    /\ RefreshChanged
    /\ prev.file_list # None
    /\ Contains(fc.file_list, PyGet(prev.file_list, prev.current_index))
    /\ fc.current_index # prev.current_index
    /\ fc.current_index # Len(fc.file_list) - 1

\* C7: a refresh of a directory whose matching files are the Listing's
\* leaves the Listing, CurrentPosition and every entry as they were.
C7_RefreshIdempotent ==
    fg.last[1] = "refresh" /\ prev.file_list = ListDir(disk, prev.data_dir)
        => fc = prev

\* the second of two refreshes of an unchanged directory, with entries cached
\* and CurrentPosition not the last
C7_Witness ==
    /\ fg.last = <<"refresh", "same">>
    /\ budget.ops = 0
    /\ Len(fc.index) > 0
    /\ fc.current_index # Len(fc.file_list) - 1

\* C8: get_data with a position outside [0, len(Listing)) fails with
\* IndexError.
C8_GetChecksRange ==
    fg.last[1] = "get" /\ fg.pc = "idle" /\ ~InRange(prev, fc.current_index)
        => fg.last[2] = "IndexError"

\* C9: when change_data_dir returns, the cache holds exactly one entry, at
\* CurrentPosition, a position of the new Listing, with the payload of the
\* new directory's file at that position.
C9_SwitchLeavesOneEntry ==
    [][fg.pc = "cd_decode" /\ fg'.last = <<"cd", "ok">> =>
          /\ Len(fc'.index) = 1
          /\ Lockstep(fc')
          /\ fc'.index[1] = fc'.current_index
          /\ InRange(fc', fc'.current_index)
          /\ fc'.data[1] = Decode(disk', <<fc'.data_dir,
                                          fc'.file_list[fc'.current_index + 1]>>)]_vars

\* C10: with pause() before change_data_dir and unpause() after it, the
\* thread in run inserts nothing of the directory that was left: once
\* change_data_dir has cleared the cache and listed the new directory, and
\* when it has returned and unpause() was called, every entry's payload is of
\* a file of the directory being viewed.
C10_EntriesOfTheDirectory ==
    fg.pc = "cd_decode" \/ fg.last = <<"cd", "ok">>
        => \A i \in 1..Len(fc.data) : fc.data[i][1] = fc.data_dir

\* the entry at place i holds the file the Listing names at its position,
\* with the modification time the payload was read at
EntryOfListing(o, i) ==
    /\ InRange(o, o.index[i])
    /\ o.data[i][1] = o.data_dir
    /\ o.data[i][2] = o.file_list[o.index[i] + 1]
    /\ o.data[i][3] = o.mtime[i]

\* C11: under every interleaving of update_file_list (from run or from the
\* timer) with get_data, when the viewer's handlers so far were gets and
\* refreshes, every entry's payload and modification time are of the file the
\* current Listing names at the entry's position.
C11_EntriesMatchListing ==
    fg.last[1] \in {"none", "get", "refresh"}
        => \A i \in 1..Len(fc.index) : EntryOfListing(fc, i)

\* the positions the cache holds
CachedPositions(o) == {o.index[i] : i \in 1..Len(o.index)}

\* the cache holds exactly the positions lo..hi, each once
HoldsExactly(o, lo, hi) ==
    /\ CachedPositions(o) = {p \in Positions : lo <= p /\ p <= hi}
    /\ \A i, j \in 1..Len(o.index) : o.index[i] = o.index[j] => i = j

\* max(0, x)
AtLeastZero(x) == IF x < 0 THEN 0 ELSE x

RunSteps == bg' # bg

\* at the test of line 132: the cache holds exactly cache_limit entries, none
\* farther from the current position than the candidate
NotCloser ==
    /\ bg.pc = "room"
    /\ Len(fc.index) = fc.cache_limit
    /\ \A i \in 1..Len(fc.index) :
          Abs(fc.index[i] - fc.current_index)
              <= Abs(bg.load_index - fc.current_index)

\* C13: a tick whose cache holds exactly cache_limit entries after the loop of
\* lines 124-130 and whose candidate is at least as far from the current
\* position as every entry evicts nothing more and loads nothing: it sleeps.
C13_FartherCandidateRejected ==
    [][NotCloser /\ RunSteps =>
          /\ fc' = fc
          /\ bg'.pc = "sleep"]_vars

\* a candidate was rejected with more than one entry cached
C13_Witness ==
    /\ bg.pc = "sleep"
    /\ bg.last = "rejected"
    /\ Len(fc.index) = fc.cache_limit
    /\ Len(fc.index) > 1

\* C14: get_data of a position of the Listing that is not cached appends one
\* entry (the position, the decoded payload of the Listing's file there, the
\* file's modification time), sets current_index to the position, returns
\* the payload and leaves every other entry in place, whatever the number of
\* entries.
C14_MissAppendsOne ==
    [][fg.pc = "get_decode" /\ fg'.last = <<"get", "miss">> /\ InRange(prev, fg.index) =>
          LET filename == <<prev.data_dir, prev.file_list[fg.index + 1]>>
          IN /\ fc' = [AppendEntry(prev, fg.index, Decode(disk, filename),
                                   Stat(disk, filename))
                          EXCEPT !.current_index = fg.index]
             /\ fg'.ret = Decode(disk, filename)]_vars

\* a miss returned with the cache already at cache_limit before it
C14_Witness ==
    /\ fg.last = <<"get", "miss">>
    /\ InRange(prev, fc.current_index)
    /\ Len(prev.index) >= prev.cache_limit
    /\ Len(fc.index) = Len(prev.index) + 1

\* C15: get_data of a cached position sets current_index to it and returns
\* the entry's stored payload, without a decoder call and with the entries as
\* they were.
C15_HitReturnsStored ==
    fg.last = <<"get", "hit">> =>
        /\ fg.pc = "idle"
        /\ Contains(prev.index, fc.current_index)
        /\ fc = [prev EXCEPT !.current_index = fc.current_index]
        /\ \E i \in 1..Len(prev.index) :
              prev.index[i] = fc.current_index /\ fg.ret = prev.data[i]

\* a hit returned at a position that was not the current one
C15_Witness ==
    /\ fg.last = <<"get", "hit">>
    /\ fc.current_index # prev.current_index
    /\ Len(fc.index) > 1

\* the thread in run goes on: it is at the head of its loop or in its sleep
LoopGoesOn(b) == b.pc \in {"head", "sleep"}

\* the place of the entry the invalidation loop is at (inv_index + 1)
InvalPlace == bg.original_length - bg.file_index

\* the invalidation loop is at an entry whose file is no longer on the disk
InvalFileGone ==
    /\ bg.pc = "inval"
    /\ InvalPlace \in 1..Len(fc.index)
    /\ PyValid(fc.file_list, fc.index[InvalPlace])
    /\ ~FileExists(disk, <<fc.data_dir, PyGet(fc.file_list, fc.index[InvalPlace])>>)

\* C16: when the invalidation loop cannot read the modification time of an
\* entry's file, it drops the entry and the thread goes on; no exception
\* leaves the tick.
C16_GoneFileDropsEntry ==
    [][InvalFileGone /\ RunSteps =>
          /\ bg'.pc # "crashed"
          /\ fc' = DelEntry(fc, InvalPlace)]_vars

\* C17: when the update_file_list of a tick finds no matching file, the tick
\* has nothing to do and the loop goes on to its next iteration; the
\* ValueError does not end the loop.
C17_EmptyListingSkipsTick ==
    [][bg.pc = "refresh" /\ RunSteps /\ ListDir(disk, fc.data_dir) = <<>> =>
          /\ LoopGoesOn(bg')
          /\ fc'.running]_vars

\* the step is a call of update_file_list by _on_timer
TimerRefreshes == fg'.last[1] = "refresh" /\ budget'.ops < budget.ops

\* the step is change_data_dir up to its decoder call or its exception
SwitchStarts == fg.pc = "dialog" /\ fg'.last[1] = "cd"

\* C18: update_file_list on a directory without a matching file raises
\* ValueError and installs nothing, so the Listing is never empty; so does
\* change_data_dir to such a directory, to its caller.
C18_EmptyListingRaises ==
    /\ [](fc.file_list # None /\ Len(fc.file_list) > 0)
    /\ [][/\ TimerRefreshes /\ ListDir(disk, fc.data_dir) = <<>> =>
                fg'.last = <<"refresh", "ValueError">> /\ fc' = fc
          /\ SwitchStarts /\ ListDir(disk, fc'.data_dir) = <<>> =>
                /\ fg'.last = <<"cd", "ValueError">>
                /\ fg'.pc = "idle"
                /\ fc'.file_list = fc.file_list]_vars

\* change_data_dir to a directory without a matching file has raised
C18_Witness ==
    /\ fg.last = <<"cd", "ValueError">>
    /\ ListDir(disk, fc.data_dir) = <<>>
    /\ Len(fc.file_list) > 0

\* C19: when the decoder fails on the candidate of a tick, nothing is
\* inserted and the loop goes on to its next iteration; when it fails inside
\* get_data, the error reaches get_data's caller and nothing is inserted.
C19_DecodeFailureContained ==
    [][/\ bg.pc = "decode" /\ RunSteps /\ ~FileExists(disk, bg.filename) =>
             fc' = fc /\ LoopGoesOn(bg')
       /\ fg.pc = "get_decode" /\ fg' # fg /\ ~FileExists(disk, fg.filename) =>
             fc' = fc /\ fg'.last = <<"get", "DecodeError">>]_vars

\* the search loop is at a test that holds, with a body that leaves the
\* candidate where it is and a distance test that does not break
SearchStuck ==
    /\ bg.pc = "search"
    /\ SearchCond(fc, bg.load_index)
    /\ Reflect(fc, bg.load_index) = bg.load_index
    /\ Abs(bg.load_index - fc.current_index) <= fc.cache_limit

\* the step is a call of exit() by _on_quit
QuitExits == fg'.last = <<"exit", "ok">> /\ budget'.ops < budget.ops

\* C20: after exit() the iteration in flight can finish (its search is never
\* at a point it cannot leave), the loop's next test ends run instead of
\* starting a tick, and a second exit() changes nothing.
C20_ExitEndsLoop ==
    /\ [](~fc.running => ~SearchStuck)
    /\ [][/\ ~fc.running /\ bg.pc = "head" /\ RunSteps => bg'.pc = "done"
          /\ ~fc.running /\ QuitExits => fc' = fc]_vars

\* C21: the object is constructed with _running True and _paused False;
\* _running changes only from True to False, only in exit(), and no
\* operation sets it back.
C21_RunningOnlyFalls ==
    /\ fc.running /\ ~fc.paused
    /\ [][fc'.running # fc.running =>
              fc.running /\ ~fc'.running /\ QuitExits]_vars

\* after exit() the viewer has used the object again
C21_Witness ==
    /\ ~fc.running
    /\ fg.last[1] \in {"get", "refresh", "open", "cd"}

\* the step is one of the two calls that set _paused
PauseToggles ==
    \/ fg.pc = "idle" /\ fg'.pc = "dialog"
    \/ fg.pc = "dialog" /\ fg'.last = <<"open", "cancelled">>

\* C22: an iteration that finds _paused True changes nothing of the object,
\* sleeps and goes back to the loop's test; pause() and unpause() change only
\* _paused; an iteration that finds _paused False (and _running True) does
\* the work of a tick.
C22_PausedIterationIdle ==
    [][/\ bg.pc = "head" /\ RunSteps /\ fc.running /\ fc.paused =>
             fc' = fc /\ bg'.pc = "sleep" /\ bg'.last = "paused"
       /\ bg.pc = "sleep" /\ RunSteps => fc' = fc /\ bg'.pc = "head"
       /\ PauseToggles => fc' = [fc EXCEPT !.paused = fc'.paused]
       /\ bg.pc = "head" /\ RunSteps /\ fc.running /\ ~fc.paused =>
             bg'.pc \in {"inval", "refresh"}]_vars

\* the thread sleeps in an iteration that found _paused True, with entries
\* cached
C22_Witness ==
    /\ bg.pc = "sleep"
    /\ bg.last = "paused"
    /\ fc.paused
    /\ Len(fc.index) > 0

\* the positions of the listing that no entry holds
Uncached(o) == {p \in 0..(Len(o.file_list) - 1) : ~Contains(o.index, p)}

\* C23: whenever the search of a tick ends on a candidate that is in range
\* and not cached, no position in range and not cached is strictly nearer to
\* current_index, current_index itself included.
C23_CandidateIsClosest ==
    [][bg.pc = "search" /\ bg'.pc = "evict" /\ bg'.load_index \in Uncached(fc) =>
           \A p \in Uncached(fc) :
               Abs(p - fc.current_index)
                   >= Abs(bg'.load_index - fc.current_index)]_vars

\* C24: a tick goes on to load its candidate only when the candidate is at
\* most cache_limit positions away from current_index.
C24_NoLoadBeyondLimit ==
    [][bg.pc \in {"room", "room_del"} /\ bg'.pc = "load" =>
           Abs(bg.load_index - fc.current_index) <= fc.cache_limit]_vars

\* C25: the search of a tick starts at current_index + 1, current_index
\* being the value left by the refresh of that tick.
C25_SearchStartsAfterRefresh ==
    [][bg.pc = "refresh" /\ bg'.pc = "search" =>
           bg'.load_index = fc'.current_index + 1]_vars

\* the places of the entries that stay when the farthest entries are dropped,
\* the earlier of two equally far ones first, until cache_limit entries are left
NearestPlaces(o) ==
    LET n == Len(o.index)
        d == Distance(o)
    IN CHOOSE K \in SUBSET (1..n) :
           /\ Cardinality(K) = IF n > o.cache_limit THEN o.cache_limit ELSE n
           /\ \A i \in (1..n) \ K, j \in K :
                 d[i] > d[j] \/ (d[i] = d[j] /\ i < j)

\* the object with the entries at the places K only, in their order
KeepPlaces(o, K) ==
    LET places == SortedList(K)
    IN [o EXCEPT !.index = [i \in 1..Len(places) |-> o.index[places[i]]],
                 !.data = [i \in 1..Len(places) |-> o.data[places[i]]],
                 !.mtime = [i \in 1..Len(places) |-> o.mtime[places[i]]]]

\* C26: the loop of lines 124-130 leaves a cache that held more than
\* cache_limit entries with exactly cache_limit of them, and any other cache
\* as it was; the entries dropped are the farthest from current_index (of two
\* equally far, the earlier in the lists goes first), each with its payload
\* and modification time, so no dropped entry is nearer than a kept one.
C26_OverfullDropsFarthest ==
    bg.pc = "room" => fc = KeepPlaces(prev, NearestPlaces(prev))

\* the loop has run on a cache that held more than cache_limit entries
C26_Witness ==
    /\ bg.pc = "room"
    /\ Len(prev.index) > prev.cache_limit
    /\ Len(fc.index) = fc.cache_limit

\* C27: behind the loop of lines 124-130, a cache below cache_limit is left as
\* it is and the candidate is loaded; a cache at cache_limit with a candidate
\* strictly nearer than its farthest entry loses exactly one farthest entry
\* and then the candidate is loaded.
C27_RoomOnlyAtCapacity ==
    [][/\ bg.pc = "room" /\ RunSteps /\ Len(fc.index) < fc.cache_limit =>
             fc' = fc /\ bg'.pc = "load"
       /\ bg.pc = "room" /\ RunSteps /\ Len(fc.index) = fc.cache_limit
             /\ Abs(bg.load_index - fc.current_index) < MaxDistance(fc) =>
             fc' = fc /\ bg'.pc = "room_del"
       /\ bg.pc = "room_del" /\ RunSteps =>
             /\ bg'.pc = "load"
             /\ \E k \in 1..Len(fc.index) :
                   /\ \A i \in 1..Len(fc.index) :
                         Abs(fc.index[i] - fc.current_index)
                             <= Abs(fc.index[k] - fc.current_index)
                   /\ fc' = DelEntry(fc, k)
       /\ bg.pc = "load" /\ RunSteps => fc' = fc /\ bg'.pc = "decode"
       /\ bg.pc = "decode" /\ RunSteps =>
             /\ fc'.index = Append(fc.index, bg.load_index)
             /\ fc'.data = Append(fc.data, <<fc.data_dir,
                                             fc.file_list[bg.load_index + 1], 1>>)]_vars

\* a cache that was at capacity lost one entry and the candidate was loaded
C27_Witness ==
    /\ bg.last = "loaded"
    /\ Len(prev.index) = prev.cache_limit
    /\ Len(fc.index) = fc.cache_limit
    /\ fc.index # prev.index

\* the position being viewed is cached
HoldsCurrent(o) == Contains(o.index, o.current_index)

\* C30: the deletions of lines 128-130 and 140-142 never take the entry of
\* current_index out of the cache: when the position being viewed is cached
\* before such a deletion, it is cached after it.
C30_EvictionKeepsCurrent ==
    [][bg.pc \in {"overfull_del", "room_del"} /\ RunSteps /\ HoldsCurrent(fc) =>
           HoldsCurrent(fc')]_vars

\* the places of the object's entries whose stored modification time is the
\* one their file has in the directory dk
FreshPlaces(o, dk) ==
    {i \in 1..Len(o.index) :
        o.mtime[i] = Stat(dk, <<o.data_dir, NameOfEntry(o, i)>>)}

\* C28: when the invalidation loop of a tick has run, the cache holds exactly
\* the entries whose stored modification time equals the one of their file,
\* each unchanged and in the order they had; every other entry is gone with
\* its position, payload and modification time.
C28_InvalidationDropsStale ==
    bg.pc = "refresh" => fc = KeepPlaces(prev, FreshPlaces(prev, disk))

\* the loop dropped an entry and kept another
C28_Witness ==
    /\ bg.pc = "refresh"
    /\ Len(fc.index) > 0
    /\ Len(fc.index) < Len(prev.index)

\* min(a, b)
Smaller(a, b) == IF a < b THEN a ELSE b

\* the cache holds min(cache_limit, len(file_list)) entries, the position being
\* viewed among them, and no entry is farther from it than a position in
\* range that is not cached
Settled(o) ==
    /\ Len(o.index) = Smaller(o.cache_limit, Len(o.file_list))
    /\ HoldsCurrent(o)
    /\ \A i \in 1..Len(o.index), q \in Uncached(o) :
          Abs(o.index[i] - o.current_index) <= Abs(q - o.current_index)

\* C29: after a get_data(p), with the viewer and the directory changing
\* nothing more, the passes of run reach and keep a cache of
\* min(cache_limit, len(file_list)) entries that holds p and no entry farther
\* from p than an uncached position in range.
C29_SettlesAroundCurrent == <>[]Settled(fc)

\* C31: between two operations current_index is a position of the Listing:
\* 0 <= current_index < len(file_list).
C31_CurrentInRange ==
    fg.pc \in {"idle", "dialog"} => InRange(fc, fc.current_index)

\* get_data has raised: the position is no index of file_list, or the decoder
\* failed
GetFailed == fg.last \in {<<"get", "IndexError">>, <<"get", "DecodeError">>}

\* C32: a get_data that raises leaves current_index, the Listing and every
\* entry of the cache as they were before the call.
C32_FailedGetChangesNothing ==
    GetFailed => fc = prev

\* C33: an update_file_list that raises ValueError because no file of the
\* directory matches the filter leaves the Listing, current_index and every
\* entry of the cache as they were before the call.
C33_FailedRefreshChangesNothing ==
    fg.last = <<"refresh", "ValueError">> => fc = prev

\* update_file_list has raised ValueError on an object that holds a Listing
\* and entries
C33_Witness ==
    /\ fg.last = <<"refresh", "ValueError">>
    /\ ListDir(disk, fc.data_dir) = <<>>
    /\ fc.file_list # None
    /\ Len(fc.index) > 0

\* the step ends _on_open_dir: the dialog was cancelled, or change_data_dir
\* returned or raised
OpenDirEnds == fg.pc \in {"dialog", "cd_decode"} /\ fg'.pc = "idle"

\* C34: _on_open_dir leaves _paused False when it ends, whether the dialog was
\* cancelled, change_data_dir returned or change_data_dir raised.
C34_OpenDirUnpauses ==
    [][OpenDirEnds => ~fc'.paused]_vars

=============================================================================
